---------------------------- MODULE Spec2Model ----------------------------
(***************************************************************************)
(* Model of the SCIAN -> BMX catalogue search (src/src/App.jsx and its     *)
(* earlier fetch-based version src/unnamed/part_000).                      *)
(*                                                                         *)
(* A JavaScript string is a sequence of UTF-16 code units (integers).      *)
(* A JavaScript value is a record [t, s, n]: t is the type tag, s the      *)
(* code units of a string, n the numeric value of a number or boolean.     *)
(***************************************************************************)
EXTENDS Integers, Sequences, FiniteSets

VARIABLES
    phase,          \* position in the component's life, or in a check of a pure function
    data,           \* what the catalogue import (or fetch) delivers
    loaded,         \* the load effect has called setRows
    rows,           \* useState([])  : the catalogue
    q,              \* useState("")  : raw query
    debouncedQ,     \* useDebouncedValue(q, 250)
    maxToShow,      \* useState(200)
    copiedId,       \* useState(null)
    isSearching,    \* useState(false)
    isDarkMode,     \* useState(() => localStorage.getItem('theme') === 'dark')
    storedTheme,    \* localStorage['theme']
    timers,         \* pending setTimeout callbacks, in order of creation
    quiet,          \* ms since the last change of q, counted up to the debounce delay
    cutShort,       \* << v >> when the last change of q replaced v before v had
                    \* rested for the debounce delay, << >> otherwise
    results,        \* useMemo: filtered rows
    grouped,        \* useMemo: groups of results
    groupedLimited, \* useMemo: { out, shown }
    arg,            \* the value normalizeText is applied to
    norm            \* the results of successive applications of normalizeText

vars == << phase, data, loaded, rows, q, debouncedQ, maxToShow, copiedId,
           isSearching, isDarkMode, storedTheme, timers, quiet, cutShort,
           results, grouped, groupedLimited, arg, norm >>

---------------------------------------------------------------------------
(* Bounds of the model *)

\* longest string given to normalizeText on its own
MaxLen == 3
\* longest query given to the pipeline on its own
MaxQLen == 2
\* longest catalogue given to the pipeline on its own
MaxRows == 3
\* largest cap given to the pipeline on its own
MaxCap == 2
\* most "copied" feedback timers pending at once
MaxCopyTimers == 2
\* ms by which one Tick advances time
TickMs == 1000

(* Constants of the program *)

DebounceDelay == 250
CopiedDelay == 2000
DefaultMaxToShow == 200
MaxToShowOptions == {100, 200, 500, 1000}

---------------------------------------------------------------------------
(* JavaScript values *)

Str(s) == [t |-> "string", s |-> s, n |-> 0]
Num(k) == [t |-> "number", s |-> << >>, n |-> k]
Bool(b) == [t |-> "boolean", s |-> << >>, n |-> IF b THEN 1 ELSE 0]
Undefined == [t |-> "undefined", s |-> << >>, n |-> 0]
Null == [t |-> "null", s |-> << >>, n |-> 0]
Obj == [t |-> "object", s |-> << >>, n |-> 0]

\* ToBoolean: the truthiness `s || ""` tests
ToBoolean(v) ==
    CASE v.t = "string" -> Len(v.s) > 0
      [] v.t = "number" -> v.n # 0
      [] v.t = "boolean" -> v.n = 1
      [] v.t = "object" -> TRUE
      [] OTHER -> FALSE

RECURSIVE Digits(_)
Digits(k) ==
    IF k < 10 THEN << 48 + k >> ELSE Digits(k \div 10) \o << 48 + (k % 10) >>

\* String(v)
String(v) ==
    CASE v.t = "string" -> v.s
      [] v.t = "number" -> IF v.n < 0 THEN << 45 >> \o Digits(0 - v.n) ELSE Digits(v.n)
      [] v.t = "boolean" -> IF v.n = 1 THEN << 116, 114, 117, 101 >>
                                       ELSE << 102, 97, 108, 115, 101 >>
      [] v.t = "undefined" -> << 117, 110, 100, 101, 102, 105, 110, 101, 100 >>
      [] v.t = "null" -> << 110, 117, 108, 108 >>
      [] OTHER -> << 91, 111, 98, 106, 101, 99, 116, 32, 79, 98, 106, 101, 99, 116, 93 >>

\* String(s || "")
StringOrEmpty(v) == IF ToBoolean(v) THEN String(v) ELSE << >>

---------------------------------------------------------------------------
(* normalizeText *)

\* a mutant of LowerChar: only the ASCII letters are lowered
LowerCharAsciiOnly(c) == IF c \in 65..90 THEN c + 32 ELSE c

\* String.prototype.toLowerCase on one code unit: ASCII and Latin-1 letters
LowerChar(c) ==
    IF c \in 65..90 THEN c + 32
    ELSE IF c \in 192..222 /\ c # 215 THEN c + 32
    ELSE c

toLowerCase(s) == [i \in 1..Len(s) |-> LowerChar(s[i])]

\* Canonical decomposition of one code unit.  The Latin-1 letters carrying an
\* acute accent, a tilde or a diaeresis decompose into base letter + mark;
\* every mark produced has combining class 230, so canonical reordering
\* leaves the order of marks as written.
Decompose(c) ==
    CASE c = 193 -> << 65, 769 >>    [] c = 225 -> << 97, 769 >>
      [] c = 201 -> << 69, 769 >>    [] c = 233 -> << 101, 769 >>
      [] c = 205 -> << 73, 769 >>    [] c = 237 -> << 105, 769 >>
      [] c = 211 -> << 79, 769 >>    [] c = 243 -> << 111, 769 >>
      [] c = 218 -> << 85, 769 >>    [] c = 250 -> << 117, 769 >>
      [] c = 209 -> << 78, 771 >>    [] c = 241 -> << 110, 771 >>
      [] c = 220 -> << 85, 776 >>    [] c = 252 -> << 117, 776 >>
      [] OTHER -> << c >>

RECURSIVE NFD(_)
NFD(s) == IF s = << >> THEN << >> ELSE Decompose(Head(s)) \o NFD(Tail(s))

\* /[\u0300-\u036f]/ : U+0300..U+036F
IsCombiningMark(c) == c \in 768..879

StripMarks(s) == SelectSeq(s, LAMBDA c : ~IsCombiningMark(c))

\* /\s/ and the characters trim() removes: the same set
IsWhiteSpace(c) ==
    \/ c \in {9, 10, 11, 12, 13, 32, 160, 5760, 8232, 8233, 8239, 8287, 12288, 65279}
    \/ c \in 8192..8202

RECURSIVE DropLeadingSpace(_)
DropLeadingSpace(s) ==
    IF s # << >> /\ IsWhiteSpace(Head(s)) THEN DropLeadingSpace(Tail(s)) ELSE s

\* .replace(/\s+/g, " ")
RECURSIVE CollapseSpace(_)
CollapseSpace(s) ==
    IF s = << >> THEN << >>
    ELSE IF IsWhiteSpace(Head(s))
         THEN << 32 >> \o CollapseSpace(DropLeadingSpace(Tail(s)))
         ELSE << Head(s) >> \o CollapseSpace(Tail(s))

Reverse(s) == [i \in 1..Len(s) |-> s[Len(s) + 1 - i]]

\* .trim()
Trim(s) == Reverse(DropLeadingSpace(Reverse(DropLeadingSpace(s))))

\* mutants of normalizeText
normalizeTextNoDefault(s) ==
    Trim(CollapseSpace(StripMarks(NFD(toLowerCase(String(s))))))

normalizeTextStripLast(s) ==
    StripMarks(Trim(CollapseSpace(NFD(toLowerCase(StringOrEmpty(s))))))

normalizeText(s) ==
    Trim(CollapseSpace(StripMarks(NFD(toLowerCase(StringOrEmpty(s))))))

---------------------------------------------------------------------------
(* The search pipeline: the three useMemo computations *)

\* String.prototype.includes
Includes(s, term) ==
    \E i \in 0..(Len(s) - Len(term)) : SubSeq(s, i + 1, i + Len(term)) = term

\* String.prototype.startsWith (used by a mutant)
StartsWith(s, term) ==
    Len(term) <= Len(s) /\ SubSeq(s, 1, Len(term)) = term

\* mutants of ComputeResults
ComputeResultsPrefixOnly(rs, dq) ==
    LET term == normalizeText(Str(dq))
    IN  IF term = << >> THEN << >>
        ELSE SelectSeq(rs, LAMBDA r : StartsWith(normalizeText(r.DescripcionCIAN), term))

ComputeResultsShowAll(rs, dq) ==
    LET term == normalizeText(Str(dq))
    IN  IF term = << >> THEN rs
        ELSE SelectSeq(rs, LAMBDA r : Includes(normalizeText(r.DescripcionCIAN), term))

\* the `results` memo
ComputeResults(rs, dq) ==
    LET term == normalizeText(Str(dq))
    IN  IF term = << >> THEN << >>
        ELSE SelectSeq(rs, LAMBDA r : Includes(normalizeText(r.DescripcionCIAN), term))

\* "(Sin DescripcionCIAN)"
SinDescripcionCIAN ==
    Str(<< 40, 83, 105, 110, 32, 68, 101, 115, 99, 114, 105, 112, 99, 105, 111,
           110, 67, 73, 65, 78, 41 >>)

\* a mutant of GroupKey: records are grouped by their normalized category
GroupKeyNormalized(r) == Str(normalizeText(r.DescripcionCIAN))

\* r.DescripcionCIAN || "(Sin DescripcionCIAN)"
GroupKey(r) ==
    IF ToBoolean(r.DescripcionCIAN) THEN r.DescripcionCIAN ELSE SinDescripcionCIAN

\* a mutant of MapPush: a repeated key moves its group to the end
MapPushMoveToEnd(map, r) ==
    LET key == GroupKey(r)
        at == { i \in 1..Len(map) : map[i].DescripcionCIAN = key }
    IN  IF at = { }
        THEN Append(map, [DescripcionCIAN |-> key, items |-> << r >>])
        ELSE LET i == CHOOSE j \in at : TRUE
             IN  Append(SelectSeq(map, LAMBDA g : g.DescripcionCIAN # key),
                        [DescripcionCIAN |-> key, items |-> Append(map[i].items, r)])

\* the loop body on a Map kept as the sequence of its entries in insertion order:
\* if (!map.has(key)) map.set(key, []); map.get(key).push(r)
MapPush(map, r) ==
    LET key == GroupKey(r)
        at == { i \in 1..Len(map) : map[i].DescripcionCIAN = key }
    IN  IF at = { }
        THEN Append(map, [DescripcionCIAN |-> key, items |-> << r >>])
        ELSE LET i == CHOOSE j \in at : TRUE
             IN  [map EXCEPT ![i].items = Append(@, r)]

RECURSIVE GroupLoop(_, _)
GroupLoop(rs, map) ==
    IF rs = << >> THEN map ELSE GroupLoop(Tail(rs), MapPush(map, Head(rs)))

\* the `grouped` memo
ComputeGrouped(res) == GroupLoop(res, << >>)

RECURSIVE TakeItems(_, _, _, _)

\* a mutant of TakeItems: the cap is tested after the push
TakeItemsTestAfter(its, items, count, max) ==
    IF its = << >>
    THEN [items |-> items, count |-> count]
    ELSE IF count + 1 >= max
         THEN [items |-> Append(items, Head(its)), count |-> count + 1]
         ELSE TakeItems(Tail(its), Append(items, Head(its)), count + 1, max)

\* a mutant of TakeItems: the cap is applied to each group on its own
TakeItemsPerGroup(its, items, count, max) ==
    LET n == IF Len(its) <= max THEN Len(its) ELSE max
    IN  [items |-> items \o SubSeq(its, 1, n), count |-> count + n]

\* the inner loop of groupedLimited: push items while count < maxToShow
TakeItems(its, items, count, max) ==
    IF its = << >> \/ count >= max
    THEN [items |-> items, count |-> count]
    ELSE TakeItems(Tail(its), Append(items, Head(its)), count + 1, max)

\* the outer loop of groupedLimited
RECURSIVE LimitLoop(_, _, _, _)
LimitLoop(gs, out, count, max) ==
    IF gs = << >>
    THEN [out |-> out, shown |-> count]
    ELSE LET g == Head(gs)
             taken == TakeItems(g.items, << >>, count, max)
             out2 == IF Len(taken.items) > 0
                     THEN Append(out, [DescripcionCIAN |-> g.DescripcionCIAN,
                                       items |-> taken.items])
                     ELSE out
         IN  IF taken.count >= max
             THEN [out |-> out2, shown |-> taken.count]
             ELSE LimitLoop(Tail(gs), out2, taken.count, max)

\* the `groupedLimited` memo
ComputeGroupedLimited(gs, max) == LimitLoop(gs, << >>, 0, max)

---------------------------------------------------------------------------
(* Inputs *)

SeqsUpTo(S, k) == UNION { [1..m -> S] : m \in 0..k }

Row(cat, code) ==
    [DescripcionCIAN |-> cat, ActividadBMX |-> Str(code), DescripcionBMX |-> Str(<< >>)]

\* the catalogue whose i-th record has category cats[i] and code "11i"
MkCatalog(cats) == [i \in 1..Len(cats) |-> Row(cats[i], Digits(110 + i))]

CatAccent == Str(<< 193, 32, 98 >>)             \* "Á b"
CatMarked == Str(<< 65, 769, 9, 32, 66 >>)      \* "A" U+0301 TAB " B"
CatPlain == Str(<< 97, 98 >>)                   \* "ab"
CatEmpty == Str(<< >>)                          \* ""

CategoryPool == { CatAccent, CatMarked, CatPlain, CatEmpty }

\* a, B, á, space
QueryAlphabet == { 97, 66, 225, 32 }

\* a, A, á, Á, U+0301, space, TAB
NormAlphabet == { 97, 65, 225, 193, 769, 32, 9 }

NormInputs ==
    { Str(s) : s \in SeqsUpTo(NormAlphabet, MaxLen) }
    \cup { Undefined, Null, Num(0), Num(12), Bool(FALSE), Bool(TRUE), Obj }

\* categories [A, B, A, C], all of which contain "b" once normalized
ExampleCategories == << CatAccent, CatPlain, CatAccent, CatMarked >>

PCatalogs ==
    { MkCatalog(cats) : cats \in SeqsUpTo(CategoryPool, MaxRows) }
    \cup { MkCatalog(ExampleCategories) }
PQueries == SeqsUpTo(QueryAlphabet, MaxQLen)

\* what the catalogue import delivers: an array, another JSON value, or a failure.
\* `items` holds the array's records, or the single object, or nothing.
ArrayData(rs) == [kind |-> "array", items |-> rs]
ObjectData == [kind |-> "object", items |-> << Row(CatPlain, << 49, 49, 49 >>) >>]
NullData == [kind |-> "null", items |-> << >>]
FailedLoad == [kind |-> "error", items |-> << >>]

AppCatalogs ==
    { << >>,
      MkCatalog(<< CatAccent, CatPlain, CatAccent >>),
      MkCatalog(<< CatMarked, Undefined, CatEmpty, CatPlain >>) }

AppData == { ArrayData(c) : c \in AppCatalogs } \cup { ObjectData, NullData, FailedLoad }

\* "", "a", "AB", " ", U+0301
AppQueries == { << >>, << 97 >>, << 65, 66 >>, << 32 >>, << 769 >> }

---------------------------------------------------------------------------
(* The component *)

NoMemo == [out |-> << >>, shown |-> 0]

\* the first render, before its effects, over one of the deliveries in D
InitOver(D) ==
    /\ phase = "initial"
    /\ data \in D
    /\ loaded = FALSE
    /\ rows = << >>
    /\ q = << >>
    /\ debouncedQ = << >>
    /\ maxToShow = DefaultMaxToShow
    /\ copiedId = Null
    /\ isSearching = FALSE
    /\ storedTheme \in { "none", "dark", "light" }
    /\ isDarkMode = (storedTheme = "dark")
    /\ timers = << >>
    /\ quiet = 0
    /\ cutShort = << >>
    /\ results = << >>
    /\ grouped = << >>
    /\ groupedLimited = NoMemo
    /\ arg = Undefined
    /\ norm = << >>

Init == InitOver(AppData)

RemoveAt(ts, i) == SubSeq(ts, 1, i - 1) \o SubSeq(ts, i + 1, Len(ts))

\* a mutant of DebounceTimer: the callback reads the query of the render before
DebounceTimerStale(value) == [kind |-> "debounce", value |-> q, remaining |-> DebounceDelay]

\* setTimeout(() => setDebounced(value), delay)
DebounceTimer(value) == [kind |-> "debounce", value |-> value, remaining |-> DebounceDelay]
CopiedTimer == [kind |-> "copied", value |-> << >>, remaining |-> CopiedDelay]

\* a mutant of ClearTimeout: the effect has no cleanup
ClearTimeoutNever(ts) == ts

\* a mutant of ClearTimeout: the handle cleared is that of the timer created
\* last, whatever its kind
ClearTimeoutLastCreated(ts) == IF ts = << >> THEN ts ELSE RemoveAt(ts, Len(ts))

\* return () => clearTimeout(t): t is the debounce timer created last
ClearTimeout(ts) ==
    LET at == { i \in 1..Len(ts) : ts[i].kind = "debounce" }
    IN  IF at = { } THEN ts
        ELSE RemoveAt(ts, CHOOSE i \in at : \A j \in at : j <= i)

\* the timers whose delay has elapsed, and the one the event loop runs next:
\* the earliest deadline, and among equal deadlines the one created first
Due(ts) == { i \in 1..Len(ts) : ts[i].remaining <= 0 }
NextDue(ts) ==
    CHOOSE i \in Due(ts) :
        \A j \in Due(ts) : \/ ts[i].remaining < ts[j].remaining
                           \/ ts[i].remaining = ts[j].remaining /\ i <= j

\* the values passed to setIsSearching while `results` is computed, in order;
\* the render that follows commits the last of them
SetIsSearchingCalls(term) == IF term = << >> THEN << FALSE >> ELSE << TRUE, FALSE >>

Last(s) == s[Len(s)]

\* One render: each memo is recomputed when one of its dependencies changed
Render(rows2, rowsSet, dq2, max2) ==
    LET resChanged == rowsSet \/ dq2 # debouncedQ
        res == IF resChanged THEN ComputeResults(rows2, dq2) ELSE results
        grp == IF resChanged THEN ComputeGrouped(res) ELSE grouped
        lim == IF resChanged \/ max2 # maxToShow
               THEN ComputeGroupedLimited(grp, max2) ELSE groupedLimited
    IN  /\ results' = res
        /\ grouped' = grp
        /\ groupedLimited' = lim
        /\ isSearching' = IF resChanged
                          THEN Last(SetIsSearchingCalls(normalizeText(Str(dq2))))
                          ELSE isSearching

\* The effects of the first render: the debounce effect schedules its timer and
\* the theme effect stores the preference
Mount ==
    /\ phase = "initial"
    /\ phase' = "mounted"
    /\ timers' = Append(timers, DebounceTimer(q))
    /\ storedTheme' = IF isDarkMode THEN "dark" ELSE "light"
    /\ UNCHANGED << data, loaded, rows, q, debouncedQ, maxToShow, copiedId,
                    isSearching, isDarkMode, quiet, cutShort, results, grouped,
                    groupedLimited, arg, norm >>

\* a mutant of LoadedRows: whatever was delivered is stored
LoadedRowsUnchecked(d) == d.items

\* Array.isArray(data) ? data : [], and [] when loading throws
LoadedRows(d) == IF d.kind = "array" THEN d.items ELSE << >>

\* The load effect calls setRows
LoadCatalog ==
    /\ phase = "mounted"
    /\ ~loaded
    /\ loaded' = TRUE
    /\ rows' = LoadedRows(data)
    /\ Render(rows', TRUE, debouncedQ, maxToShow)
    /\ UNCHANGED << phase, data, q, debouncedQ, maxToShow, copiedId, isDarkMode,
                    storedTheme, timers, quiet, cutShort, arg, norm >>

\* a mutant of SetQ: the memos are recomputed for the raw query at once
SetQFiltersAtOnce(v) ==
    /\ phase = "mounted"
    /\ v # q
    /\ q' = v
    /\ timers' = Append(ClearTimeout(timers), DebounceTimer(v))
    /\ quiet' = 0
    /\ cutShort' = IF quiet < DebounceDelay THEN << q >> ELSE << >>
    /\ Render(rows, TRUE, v, maxToShow)
    /\ UNCHANGED << phase, data, loaded, rows, debouncedQ, maxToShow, copiedId,
                    isDarkMode, storedTheme, arg, norm >>

\* onChange of the search input: setQ, then the debounce effect's cleanup and
\* the effect itself
SetQ(v) ==
    /\ phase = "mounted"
    /\ v # q
    /\ q' = v
    /\ timers' = Append(ClearTimeout(timers), DebounceTimer(v))
    /\ quiet' = 0
    /\ cutShort' = IF quiet < DebounceDelay THEN << q >> ELSE << >>
    /\ Render(rows, FALSE, debouncedQ, maxToShow)
    /\ UNCHANGED << phase, data, loaded, rows, debouncedQ, maxToShow, copiedId,
                    isDarkMode, storedTheme, arg, norm >>

\* a mutant of DebounceFire: the filtered list is written back over the catalogue
DebounceFireWriteBack ==
    /\ phase = "mounted"
    /\ Due(timers) # { }
    /\ LET i == NextDue(timers)
       IN  /\ timers[i].kind = "debounce"
           /\ debouncedQ' = timers[i].value
           /\ timers' = RemoveAt(timers, i)
    /\ rows' = ComputeResults(rows, debouncedQ')
    /\ Render(rows', rows' # rows, debouncedQ', maxToShow)
    /\ UNCHANGED << phase, data, loaded, q, maxToShow, copiedId, isDarkMode,
                    storedTheme, quiet, cutShort, arg, norm >>

\* the debounce timer's callback: setDebounced(value)
DebounceFire ==
    /\ phase = "mounted"
    /\ Due(timers) # { }
    /\ LET i == NextDue(timers)
       IN  /\ timers[i].kind = "debounce"
           /\ debouncedQ' = timers[i].value
           /\ timers' = RemoveAt(timers, i)
    /\ Render(rows, FALSE, debouncedQ', maxToShow)
    /\ UNCHANGED << phase, data, loaded, rows, q, maxToShow, copiedId, isDarkMode,
                    storedTheme, quiet, cutShort, arg, norm >>

\* onChange of the select: setMaxToShow(Number(e.target.value))
SetMaxToShow(m) ==
    /\ phase = "mounted"
    /\ m # maxToShow
    /\ maxToShow' = m
    /\ Render(rows, FALSE, debouncedQ, m)
    /\ UNCHANGED << phase, data, loaded, rows, q, debouncedQ, copiedId, isDarkMode,
                    storedTheme, timers, quiet, cutShort, arg, norm >>

\* the records on screen, each with a "Copiar" button
DisplayedItems ==
    UNION { { groupedLimited.out[g].items[i] :
                i \in 1..Len(groupedLimited.out[g].items) } :
            g \in 1..Len(groupedLimited.out) }

CopiedTimers(ts) == { i \in 1..Len(ts) : ts[i].kind = "copied" }

\* copyToClipboard, writeText resolved
CopyToClipboardOk(item) ==
    /\ phase = "mounted"
    /\ Cardinality(CopiedTimers(timers)) < MaxCopyTimers
    /\ copiedId' = item.ActividadBMX
    /\ timers' = Append(timers, CopiedTimer)
    /\ UNCHANGED << phase, data, loaded, rows, q, debouncedQ, maxToShow,
                    isSearching, isDarkMode, storedTheme, quiet, cutShort, results, grouped,
                    groupedLimited, arg, norm >>

\* copyToClipboard, writeText rejected: the error is logged
CopyToClipboardFail(item) ==
    /\ phase = "mounted"
    /\ UNCHANGED vars

\* the feedback timer's callback: setCopiedId(null)
CopiedFire ==
    /\ phase = "mounted"
    /\ Due(timers) # { }
    /\ LET i == NextDue(timers)
       IN  /\ timers[i].kind = "copied"
           /\ timers' = RemoveAt(timers, i)
    /\ copiedId' = Null
    /\ UNCHANGED << phase, data, loaded, rows, q, debouncedQ, maxToShow,
                    isSearching, isDarkMode, storedTheme, quiet, cutShort, results, grouped,
                    groupedLimited, arg, norm >>

\* toggleTheme and the theme effect
ToggleTheme ==
    /\ phase = "mounted"
    /\ isDarkMode' = ~isDarkMode
    /\ storedTheme' = IF isDarkMode' THEN "dark" ELSE "light"
    /\ UNCHANGED << phase, data, loaded, rows, q, debouncedQ, maxToShow, copiedId,
                    isSearching, timers, quiet, cutShort, results, grouped, groupedLimited,
                    arg, norm >>

Min(a, b) == IF a <= b THEN a ELSE b

\* TickMs pass; a timer whose delay has elapsed runs before more time passes
Tick ==
    /\ phase = "mounted"
    /\ timers # << >>
    /\ Due(timers) = { }
    /\ timers' = [i \in 1..Len(timers) |->
                    [timers[i] EXCEPT !.remaining = @ - TickMs]]
    /\ quiet' = Min(DebounceDelay, quiet + TickMs)
    /\ UNCHANGED << phase, data, loaded, rows, q, debouncedQ, maxToShow, copiedId,
                    cutShort, isSearching, isDarkMode, storedTheme, results, grouped,
                    groupedLimited, arg, norm >>

Next ==
    \/ Mount
    \/ LoadCatalog
    \/ \E v \in AppQueries : SetQ(v)
    \/ DebounceFire
    \/ \E m \in MaxToShowOptions : SetMaxToShow(m)
    \/ \E item \in DisplayedItems : CopyToClipboardOk(item)
    \/ \E item \in DisplayedItems : CopyToClipboardFail(item)
    \/ CopiedFire
    \/ ToggleTheme
    \/ Tick

Spec == Init /\ [][Next]_vars

\* the timer that is due next runs: a step of DebounceFire or of CopiedFire
TimerRuns ==
    /\ phase = "mounted"
    /\ Due(timers) # { }
    /\ timers' = RemoveAt(timers, NextDue(timers))

\* the load effect runs: the step of LoadCatalog
CatalogArrives ==
    /\ phase = "mounted"
    /\ ~loaded
    /\ loaded' = TRUE

\* the component over one catalogue with records and over a delivery that is
\* no array
LiveData == { ArrayData(MkCatalog(<< CatAccent, CatPlain >>)), NullData }

LiveInit == InitOver(LiveData)

\* Effects run, the catalogue arrives, time passes and due timers run
FairSpec ==
    /\ LiveInit
    /\ [][Next]_vars
    /\ WF_vars(Mount)
    /\ WF_loaded(CatalogArrives)
    /\ WF_timers(TimerRuns)
    /\ WF_vars(Tick)

---------------------------------------------------------------------------
(* The pipeline on its own: one render over a given catalogue, query and cap *)

PipelineInit ==
    /\ phase = "pipeline"
    /\ rows \in PCatalogs
    /\ debouncedQ \in PQueries
    /\ maxToShow \in (0..MaxCap) \cup MaxToShowOptions
    /\ data = ArrayData(rows)
    /\ loaded = TRUE
    /\ q = debouncedQ
    /\ copiedId = Null
    /\ isSearching = FALSE
    /\ storedTheme = "light"
    /\ isDarkMode = FALSE
    /\ timers = << >>
    /\ quiet = 0
    /\ cutShort = << >>
    /\ results = << >>
    /\ grouped = << >>
    /\ groupedLimited = NoMemo
    /\ arg = Undefined
    /\ norm = << >>

Pipeline ==
    /\ phase = "pipeline"
    /\ phase' = "rendered"
    /\ results' = ComputeResults(rows, debouncedQ)
    /\ grouped' = ComputeGrouped(results')
    /\ groupedLimited' = ComputeGroupedLimited(grouped', maxToShow)
    /\ UNCHANGED << data, loaded, rows, q, debouncedQ, maxToShow, copiedId,
                    isSearching, isDarkMode, storedTheme, timers, quiet, cutShort, arg, norm >>

PipelineSpec == PipelineInit /\ [][Pipeline]_vars

---------------------------------------------------------------------------
(* normalizeText on its own: applied to a value, then to its own result *)

NormInit ==
    /\ phase = "normalize"
    /\ arg \in NormInputs
    /\ norm = << >>
    /\ data = NullData
    /\ loaded = FALSE
    /\ rows = << >>
    /\ q = << >>
    /\ debouncedQ = << >>
    /\ maxToShow = DefaultMaxToShow
    /\ copiedId = Null
    /\ isSearching = FALSE
    /\ storedTheme = "light"
    /\ isDarkMode = FALSE
    /\ timers = << >>
    /\ quiet = 0
    /\ cutShort = << >>
    /\ results = << >>
    /\ grouped = << >>
    /\ groupedLimited = NoMemo

Normalize ==
    /\ phase = "normalize"
    /\ Len(norm) < 2
    /\ norm' = Append(norm, normalizeText(IF norm = << >> THEN arg
                                          ELSE Str(norm[Len(norm)])))
    /\ UNCHANGED << phase, data, loaded, rows, q, debouncedQ, maxToShow, copiedId,
                    isSearching, isDarkMode, storedTheme, timers, quiet, cutShort, results,
                    grouped, groupedLimited, arg >>

NormSpec == NormInit /\ [][Normalize]_vars

---------------------------------------------------------------------------
(* Properties *)

Term == normalizeText(Str(debouncedQ))

\* the record's normalized category contains the normalized query
Matches(r) == Includes(normalizeText(r.DescripcionCIAN), Term)

InSeq(r, rs) == \E j \in 1..Len(rs) : rs[j] = r

\* C1: for a non-empty normalized query the filtered result set holds exactly the
\* catalogue records whose normalized category contains the normalized query
C1_FilterExact ==
    (phase = "rendered" /\ Term # << >>) =>
        /\ \A i \in 1..Len(rows) : Matches(rows[i]) <=> InSeq(rows[i], results)
        /\ \A j \in 1..Len(results) : InSeq(results[j], rows) /\ Matches(results[j])

\* some records match only once case and accents are ignored, others do not match
C1_Witness ==
    /\ phase = "rendered"
    /\ Term # << >>
    /\ results # << >>
    /\ Len(results) < Len(rows)
    /\ \E j \in 1..Len(results) :
          ~Includes(results[j].DescripcionCIAN.s, debouncedQ)

IsBlank(s) == \A i \in 1..Len(s) : IsWhiteSpace(s[i])

\* C2: an empty or whitespace-only query gives no results, no groups and a shown
\* count of zero, whatever the catalogue holds
C2_BlankQueryEmpty ==
    (phase = "rendered" /\ IsBlank(debouncedQ)) =>
        /\ results = << >>
        /\ grouped = << >>
        /\ groupedLimited.out = << >>
        /\ groupedLimited.shown = 0

\* a whitespace-only query over a catalogue with records
C2_Witness ==
    /\ phase = "rendered"
    /\ debouncedQ = << 32, 32 >>
    /\ Len(rows) = MaxRows
    /\ results = << >>

\* position of a record in a sequence of distinct records
PosIn(r, rs) == CHOOSE i \in 1..Len(rs) : rs[i] = r

\* index in `results` of the first record of a category
FirstSeen(key) ==
    CHOOSE j \in 1..Len(results) :
        /\ GroupKey(results[j]) = key
        /\ \A k \in 1..(j - 1) : GroupKey(results[k]) # key

\* C5: filtering keeps catalogue order; groups come in the order in which their
\* category is first seen among the filtered records, and each group holds the
\* filtered records of its category in their relative order
C5_OrderPreserved ==
    phase = "rendered" =>
        /\ \A j, k \in 1..Len(results) :
              j < k => PosIn(results[j], rows) < PosIn(results[k], rows)
        /\ \A j \in 1..Len(results) :
              \E g \in 1..Len(grouped) : grouped[g].DescripcionCIAN = GroupKey(results[j])
        /\ \A g, h \in 1..Len(grouped) :
              g < h => FirstSeen(grouped[g].DescripcionCIAN)
                         < FirstSeen(grouped[h].DescripcionCIAN)
        /\ \A g \in 1..Len(grouped) :
              grouped[g].items =
                  SelectSeq(results,
                            LAMBDA r : GroupKey(r) = grouped[g].DescripcionCIAN)

\* categories [A, B, A, C] give groups [A, B, C] with A = [rec1, rec3]
C5_Witness ==
    /\ phase = "rendered"
    /\ Len(results) = 4
    /\ Len(grouped) = 3
    /\ grouped[1].DescripcionCIAN = CatAccent
    /\ grouped[2].DescripcionCIAN = CatPlain
    /\ grouped[3].DescripcionCIAN = CatMarked
    /\ grouped[1].items = << rows[1], rows[3] >>

RECURSIVE TotalItems(_)
TotalItems(gs) ==
    IF gs = << >> THEN 0 ELSE Len(Head(gs).items) + TotalItems(Tail(gs))

\* C6: the capped output never holds more records than maxToShow, and `shown`
\* is the number of records it holds
C6_CapRespected ==
    phase = "rendered" =>
        /\ TotalItems(groupedLimited.out) <= maxToShow
        /\ groupedLimited.shown = TotalItems(groupedLimited.out)

\* the cap cuts the second group short: one record of the first group and one
\* of the two records of the second
C6_Witness ==
    /\ phase = "rendered"
    /\ maxToShow = 2
    /\ Len(grouped) = 2
    /\ Len(grouped[1].items) = 1
    /\ Len(grouped[2].items) = 2
    /\ Len(groupedLimited.out) = 2
    /\ Len(groupedLimited.out[2].items) = 1
    /\ groupedLimited.shown = 2

\* what is displayed is the pipeline's result for the debounced query
Displayed ==
    /\ results = ComputeResults(rows, debouncedQ)
    /\ grouped = ComputeGrouped(results)
    /\ groupedLimited = ComputeGroupedLimited(grouped, maxToShow)

\* C3: the debounced query only ever changes to the raw query of the moment, and
\* only once that raw query has rested for the whole delay: a value replaced
\* before its quiet period elapsed is never written, and what is displayed is
\* always the result for the debounced query
C3_SupersededNeverDebounced ==
    /\ [][debouncedQ' # debouncedQ => (debouncedQ' = q /\ quiet >= DebounceDelay)]_vars
    /\ []Displayed

\* "a" was replaced by "AB" before its quiet period elapsed, and "AB" was debounced
C3_Witness ==
    /\ cutShort = << << 97 >> >>
    /\ q = << 65, 66 >>
    /\ debouncedQ = q
    /\ results # << >>

\* the debounced query is the raw query and its result is displayed
Settled == debouncedQ = q /\ Displayed

\* C4: once keystrokes stop the debounced query becomes the latest raw query and
\* the display is the pipeline's result for it, and stays so until q changes.
\* quiet = 0 holds right after a change of q and never again once time passes:
\* if q stops changing, Settled holds again and again; the debounced query then
\* stays the raw query while q stays, and the display follows it at every step.
C4_EventuallySettled ==
    /\ []<>(Settled \/ quiet = 0)
    /\ [][(debouncedQ = q /\ q' = q) => debouncedQ' = q']_vars
    /\ [](debouncedQ = q => Settled)

\* a query was typed, its timer ran, and its matches are on screen
C4_Witness ==
    /\ loaded
    /\ q = << 97 >>
    /\ Settled
    /\ Len(results) >= 2
    /\ \A i \in 1..Len(timers) : timers[i].kind # "debounce"

\* C7: once loaded, the catalogue is what was delivered and no step changes it
C7_CatalogReadOnly ==
    [][loaded => (loaded' /\ rows' = rows /\ rows = LoadedRows(data))]_vars

\* a loaded catalogue after a search, a copy, a change of cap and of theme
C7_Witness ==
    /\ loaded
    /\ Len(rows) = 4
    /\ results # << >>
    /\ Len(results) < Len(rows)
    /\ copiedId # Null
    /\ maxToShow = 100
    /\ isDarkMode
    /\ storedTheme = "dark"

\* C8: when what was delivered is not an array, or loading failed, the catalogue
\* is empty, every query gives zero matches and the input still accepts keystrokes
C8_NonArrayIsEmpty ==
    (loaded /\ data.kind # "array") =>
        /\ rows = << >>
        /\ results = << >>
        /\ grouped = << >>
        /\ groupedLimited = NoMemo
        /\ ENABLED (\E v \in AppQueries : SetQ(v))

\* a single object was delivered and a query was then searched for
C8_Witness ==
    /\ loaded
    /\ data = ObjectData
    /\ debouncedQ = << 97 >>
    /\ results = << >>

\* the normalization of the empty string
NormOfEmpty == normalizeText(Str(<< >>))

C10_Idempotent ==
    (Len(norm) = 2 /\ arg.t = "string") => norm[2] = norm[1]

\* a string that normalization changes was normalized twice: " Á" TAB
C10_Witness ==
    /\ arg = Str(<< 32, 193, 9 >>)
    /\ Len(norm) = 2
    /\ norm[1] = << 97 >>

\* The letter a code unit is a form of: "a" for a, A, a-acute and A-acute
LetterOf(c) == IF c \in { 97, 65, 225, 193 } THEN 97 ELSE c

\* a string with case and diacritical marks taken away: every letter replaced
\* by the letter it is a form of, the combining acute accent left out
Unmarked(s) ==
    LET kept == SelectSeq(s, LAMBDA c : c # 769)
    IN  [i \in 1..Len(kept) |-> LetterOf(kept[i])]

\* s and t differ only in letter case and in the marks on their letters
SameLetters(s, t) == Unmarked(s) = Unmarked(t)

StringInputs == { v \in NormInputs : v.t = "string" }

\* the strings that differ from one another only in case and marks, by what is
\* left of them without case and marks; every string with its normalized form;
\* the normalized forms of the queries
UnmarkedForms == { Unmarked(v.s) : v \in StringInputs }
SameLettersAs == [u \in UnmarkedForms |-> { v \in StringInputs : Unmarked(v.s) = u }]
NormalizedOf == [v \in StringInputs |-> normalizeText(v)]
NormalizedQueries == { normalizeText(Str(dq)) : dq \in PQueries }

\* the filter's test, line 178: the queries a category is found by, and the
\* categories (among the queries' forms) a query finds
FoundBy(cat) == { term \in NormalizedQueries : Includes(cat, term) }
Finds(term) == { cat \in NormalizedQueries : Includes(cat, term) }
FoundByOf == [v \in StringInputs |-> FoundBy(NormalizedOf[v])]
FindsOf == [v \in StringInputs |-> Finds(NormalizedOf[v])]

\* C11: two strings that differ only in letter case and in the diacritical marks
\* on their letters have the same normalized form, so the filter's test
\* (normalized category includes normalized query) gives the same answer for
\* either string, as the category or as the query
C11_AccentCaseInsensitive ==
    (Len(norm) >= 1 /\ arg.t = "string") =>
        LET foundBy == FoundBy(norm[1])
            finds == Finds(norm[1])
        IN  \A v \in SameLettersAs[Unmarked(arg.s)] :
                /\ NormalizedOf[v] = norm[1]
                /\ FoundByOf[v] = foundBy
                /\ FindsOf[v] = finds

\* "A-acute a" with a combining accent on the second letter normalizes to "aa",
\* as its plain lower-case form does
C11_Witness ==
    /\ arg = Str(<< 193, 97, 769 >>)
    /\ Len(norm) >= 1
    /\ norm[1] = << 97, 97 >>
    /\ SameLetters(arg.s, << 97, 97 >>)
    /\ arg.s # << 97, 97 >>

DebounceTimers(ts) == { i \in 1..Len(ts) : ts[i].kind = "debounce" }

\* C12: at most one debounce timer is pending and it holds the raw query of the
\* moment (a replaced query's timer was cancelled, so it is no longer there to
\* fire); a step in which a debounce timer fires writes the raw query that is
\* current in that step and leaves no debounce timer pending
C12_OneDebounceTimer ==
    /\ [](/\ Cardinality(DebounceTimers(timers)) <= 1
          /\ \A i \in DebounceTimers(timers) : timers[i].value = q)
    /\ [][Cardinality(DebounceTimers(timers')) < Cardinality(DebounceTimers(timers))
            => /\ debouncedQ' = q
               /\ q' = q
               /\ DebounceTimers(timers') = { }]_vars

\* "a" was typed and replaced by "AB" within the delay: the one pending debounce
\* timer is the one for "AB", beside a pending feedback timer
C12_Witness ==
    /\ cutShort = << << 97 >> >>
    /\ q = << 65, 66 >>
    /\ debouncedQ # q
    /\ Cardinality(DebounceTimers(timers)) = 1
    /\ CopiedTimers(timers) # { }

---------------------------------------------------------------------------
(* What the component renders *)

\* the idle screen: !debouncedQ.trim() && rows.length > 0
ShowsIdleScreen == Trim(debouncedQ) = << >> /\ Len(rows) > 0

\* the status panel: debouncedQ.trim() && ...
ShowsStatusPanel == Trim(debouncedQ) # << >>

\* isSearching ? "Buscando..." : "Encontradas N coincidencias"
ShowsSearching == ShowsStatusPanel /\ isSearching
ShowsMatchCount == ShowsStatusPanel /\ ~isSearching

\* groupedLimited.out.map(...)
ShowsGroups == groupedLimited.out # << >>

\* debouncedQ.trim() && groupedLimited.out.length === 0
ShowsNoResults == Trim(debouncedQ) # << >> /\ Len(groupedLimited.out) = 0

---------------------------------------------------------------------------
(* Properties of what is rendered *)

\* C13: while a non-empty query is present whose result has not been computed
\* yet, the component is searching (isSearching is true and no match count of
\* an older query is shown); a match count is shown only when the displayed
\* result was computed for the current raw query
C13_SearchingUntilSettled ==
    /\ (phase = "mounted" /\ normalizeText(Str(q)) # << >> /\ debouncedQ # q)
          => (isSearching /\ ~ShowsMatchCount)
    /\ ShowsMatchCount => (debouncedQ = q /\ Displayed)

\* the records of a list of groups, read group by group
RECURSIVE Flatten(_)
Flatten(gs) == IF gs = << >> THEN << >> ELSE Head(gs).items \o Flatten(Tail(gs))

\* C14: the records of the capped output, read group by group, are the first
\* min(cap, total matches) records of the uncapped groups read group by group;
\* the groups emitted are the leading groups, each non-empty and complete
\* except possibly the last, which is a prefix of its group; no group is emitted
\* once the groups before it have filled the cap
C14_CapKeepsPrefix ==
    phase = "rendered" =>
        LET out == groupedLimited.out
            n == Min(maxToShow, Len(results))
        IN  /\ Len(Flatten(grouped)) = Len(results)
            /\ Flatten(out) = SubSeq(Flatten(grouped), 1, n)
            /\ Len(out) <= Len(grouped)
            /\ \A g \in 1..Len(out) :
                  /\ out[g].DescripcionCIAN = grouped[g].DescripcionCIAN
                  /\ out[g].items # << >>
                  /\ out[g].items = SubSeq(grouped[g].items, 1, Len(out[g].items))
                  /\ g < Len(out) => out[g].items = grouped[g].items
            /\ Len(out) >= 1 =>
                  TotalItems(SubSeq(grouped, 1, Len(out) - 1)) < maxToShow

\* four matches in three groups under a cap of 1: the first of the two records
\* of the first group is kept, the other groups are not emitted
C14_Witness ==
    /\ phase = "rendered"
    /\ maxToShow = 1
    /\ Len(results) = 4
    /\ Len(grouped) = 3
    /\ Len(grouped[1].items) = 2
    /\ Len(groupedLimited.out) = 1
    /\ groupedLimited.out[1].items = << grouped[1].items[1] >>

\* C15: whenever the normalized debounced query is empty (also for a query made
\* only of whitespace or only of combining marks) the component shows no groups,
\* no match count and no "no results" message
C15_EmptyQueryIsIdle ==
    (phase = "mounted" /\ normalizeText(Str(debouncedQ)) = << >>) =>
        /\ ~ShowsGroups
        /\ ~ShowsMatchCount
        /\ ~ShowsNoResults

\* C16: a successful copy (a step that schedules a feedback timer) leaves the
\* copied code of a record on screen in copiedId, and copiedId is cleared only
\* once 2 seconds have passed since the latest copy, that is when no feedback
\* timer still has time to run
C16_FeedbackLastsTwoSeconds ==
    [][/\ Cardinality(CopiedTimers(timers')) > Cardinality(CopiedTimers(timers))
            => \E item \in DisplayedItems : copiedId' = item.ActividadBMX
       /\ (copiedId # Null /\ copiedId' = Null)
            => \A i \in CopiedTimers(timers) : timers[i].remaining <= 0]_vars

C18_GroupsWellFormed ==
    LET out == groupedLimited.out
    IN  /\ \A g \in 1..Len(out) :
              /\ out[g].items # << >>
              /\ out[g].DescripcionCIAN # SinDescripcionCIAN
              /\ \A i \in 1..Len(out[g].items) :
                    /\ out[g].items[i].DescripcionCIAN = out[g].DescripcionCIAN
                    /\ InSeq(out[g].items[i], rows)
        /\ \A g, h \in 1..Len(out) :
              g # h => out[g].DescripcionCIAN # out[h].DescripcionCIAN
        /\ \A j \in 1..Len(results) : ToBoolean(results[j].DescripcionCIAN)

\* two groups whose categories have the same normalized form are kept apart,
\* and the record without a category is left out of the results
C18_Witness ==
    /\ phase = "rendered"
    /\ Len(rows) = 3
    /\ \E i \in 1..Len(rows) : ~ToBoolean(rows[i].DescripcionCIAN)
    /\ Len(results) = 2
    /\ Len(groupedLimited.out) = 2
    /\ normalizeText(groupedLimited.out[1].DescripcionCIAN)
         = normalizeText(groupedLimited.out[2].DescripcionCIAN)

===========================================================================
